---------------------------- MODULE Spec2Model ----------------------------
(***************************************************************************)
(* The colour plugin of native-launcher (examples/plugins/color/color.py): *)
(* hex_to_rgb, rgb_to_hex, rgb_to_hsl, hsl_to_rgb_tuple, parse_color,      *)
(* generate_color_results and main.                                        *)
(*                                                                         *)
(* Strings are sequences of one-character strings.  Python floats are      *)
(* IEEE-754 binary64 values, computed here bit for bit: a finite float is  *)
(* man * 2^exp with a 53-bit mantissa held as a natural number in limbs of *)
(* 15 bits, and every operation rounds to nearest, ties to even.  Python   *)
(* integers are unbounded: those that can leave the range of a machine     *)
(* word are kept as a sign and a magnitude in limbs.                       *)
(***************************************************************************)
EXTENDS Integers, Sequences, FiniteSets, TLC

(***************************************************************************)
(* A local name for a value: With(v, LAMBDA x : e) is e with v for x, and  *)
(* v is computed once however often e uses x.                              *)
(***************************************************************************)
With(v, Body(_)) == Body(v)
With2(v, w, Body(_, _)) == Body(v, w)
With3(u, v, w, Body(_, _, _)) == Body(u, v, w)

(***************************************************************************)
(* Natural numbers of any size: little-endian limbs, no high zero limb.    *)
(***************************************************************************)
LimbBits == 15
Base == 32768

RECURSIVE Pow2(_)
Pow2(n) == IF n = 0 THEN 1 ELSE 2 * Pow2(n - 1)

Limb(a, i) == IF i <= Len(a) THEN a[i] ELSE 0

\* the limbs of a without its high zero limbs
BNorm(a) ==
    LET nz == {i \in 1..Len(a) : a[i] # 0}
    IN  IF nz = {} THEN <<>>
        ELSE SubSeq(a, 1, CHOOSE i \in nz : \A j \in nz : j <= i)

BFromInt(n) ==
    IF n = 0 THEN <<>>
    ELSE IF n < Base THEN <<n>>
    ELSE IF n < Base * Base THEN <<n % Base, n \div Base>>
    ELSE <<n % Base, (n \div Base) % Base, n \div (Base * Base)>>

\* the value of a natural of at most two limbs
BToInt(a) == Limb(a, 1) + Base * Limb(a, 2)

(***************************************************************************)
(* Carries run through a range lo..hi of limbs by halving it, which keeps  *)
(* the evaluation shallow for long numbers: <<limbs lo..hi, carry out>>.   *)
(***************************************************************************)
RECURSIVE BAddR(_, _, _, _, _)
BAddR(a, b, lo, hi, c) ==
    IF lo > hi THEN <<<<>>, c>>
    ELSE IF lo = hi
    THEN LET t == Limb(a, lo) + Limb(b, lo) + c IN <<<<t % Base>>, t \div Base>>
    ELSE LET mid == (lo + hi) \div 2
             L == BAddR(a, b, lo, mid, c)
             R == BAddR(a, b, mid + 1, hi, L[2])
         IN  <<L[1] \o R[1], R[2]>>

\* the limbs of r = <<limbs, carry out>>
Carry(r) == IF r[2] = 0 THEN r[1] ELSE r[1] \o <<r[2]>>

BAdd(a, b) == Carry(BAddR(a, b, 1, IF Len(a) > Len(b) THEN Len(a) ELSE Len(b), 0))

RECURSIVE BSubR(_, _, _, _, _)
BSubR(a, b, lo, hi, c) ==
    IF lo > hi THEN <<<<>>, c>>
    ELSE IF lo = hi
    THEN LET t == a[lo] - Limb(b, lo) - c
         IN  IF t < 0 THEN <<<<t + Base>>, 1>> ELSE <<<<t>>, 0>>
    ELSE LET mid == (lo + hi) \div 2
             L == BSubR(a, b, lo, mid, c)
             R == BSubR(a, b, mid + 1, hi, L[2])
         IN  <<L[1] \o R[1], R[2]>>

\* a - b for a >= b
BSub(a, b) == BNorm(BSubR(a, b, 1, Len(a), 0)[1])

\* -1, 0, 1 as a < b, a = b, a > b
BCmp(a, b) ==
    IF Len(a) < Len(b) THEN -1
    ELSE IF Len(a) > Len(b) THEN 1
    ELSE LET df == {i \in 1..Len(a) : a[i] # b[i]}
         IN  IF df = {} THEN 0
             ELSE LET top == CHOOSE i \in df : \A j \in df : j <= i
                  IN  IF a[top] < b[top] THEN -1 ELSE 1

RECURSIVE BMulSmallR(_, _, _, _, _)
BMulSmallR(a, k, lo, hi, c) ==
    IF lo > hi THEN <<<<>>, c>>
    ELSE IF lo = hi
    THEN LET t == a[lo] * k + c IN <<<<t % Base>>, t \div Base>>
    ELSE LET mid == (lo + hi) \div 2
             L == BMulSmallR(a, k, lo, mid, c)
             R == BMulSmallR(a, k, mid + 1, hi, L[2])
         IN  <<L[1] \o R[1], R[2]>>

\* a * k + c for k, c < Base
BMulSmall(a, k, c) ==
    IF k = 0 THEN BFromInt(c)
    ELSE Carry(BMulSmallR(a, k, 1, Len(a), c))

Zeros(n) == [i \in 1..n |-> 0]

\* a * (the limbs lo..hi of b, taken as a number)
RECURSIVE BMulR(_, _, _, _)
BMulR(a, b, lo, hi) ==
    IF lo = hi THEN BMulSmall(a, b[lo], 0)
    ELSE LET mid == (lo + hi) \div 2
             H == BMulR(a, b, mid + 1, hi)
         IN  BAdd(BMulR(a, b, lo, mid),
                  IF H = <<>> THEN <<>> ELSE Zeros(mid + 1 - lo) \o H)

BMul(a, b) == IF a = <<>> \/ b = <<>> THEN <<>> ELSE BMulR(a, b, 1, Len(b))

\* a * 2^n
BShl(a, n) ==
    IF a = <<>> THEN a
    ELSE Zeros(n \div LimbBits) \o BMulSmall(a, Pow2(n % LimbBits), 0)

\* floor(a / 2^n)
BShr(a, n) ==
    LET d == n \div LimbBits
        p == Pow2(n % LimbBits)
        q == Base \div p
    IN  IF d >= Len(a) THEN <<>>
        ELSE BNorm([i \in 1..(Len(a) - d) |->
                       (a[i + d] \div p) + (Limb(a, i + d + 1) % p) * q])

RECURSIVE IntBitLen(_)
IntBitLen(n) == IF n = 0 THEN 0 ELSE 1 + IntBitLen(n \div 2)

BitLen(a) == IF a = <<>> THEN 0 ELSE LimbBits * (Len(a) - 1) + IntBitLen(a[Len(a)])

BOdd(a) == Limb(a, 1) % 2 = 1

\* bit n of a (bit 0 is the lowest); whether a has a bit set below bit n
BBit(a, n) == (Limb(a, (n \div LimbBits) + 1) \div Pow2(n % LimbBits)) % 2
BLowBits(a, n) ==
    \/ \E i \in 1..(n \div LimbBits) : Limb(a, i) # 0
    \/ Limb(a, (n \div LimbBits) + 1) % Pow2(n % LimbBits) # 0

(***************************************************************************)
(* Long division in limbs.  BDivSticky(a, d, k) is twice                   *)
(* floor(a * Base^k / d), plus one when the division leaves a remainder    *)
(* (a sticky bit for rounding).  Needs 0 < d and a < 2 * d.                *)
(***************************************************************************)
\* lower the estimate qh of floor(r / d) until p = qh * d fits: <<quotient, remainder>>
RECURSIVE DivFix(_, _, _, _)
DivFix(qh, p, r, d) ==
    IF BCmp(p, r) > 0 THEN DivFix(qh - 1, BSub(p, d), r, d)
    ELSE <<qh, BSub(r, p)>>

\* one limb of quotient of r / d, for r < d * Base and the top limb of d >= Base / 2
DivLimb(r, d) ==
    LET L == Len(d)
        hi == Limb(r, L + 1) * Base + Limb(r, L)
        est == hi \div d[L]
        qh == IF est > Base - 1 THEN Base - 1 ELSE est
    IN  DivFix(qh, BMulSmall(d, qh, 0), r, d)

\* st = <<remainder, quotient>>, k limbs still to produce
RECURSIVE DivLimbs(_, _, _)
DivLimbs(st, d, k) ==
    IF k = 0 THEN BMulSmall(BNorm(st[2]), 2, IF st[1] = <<>> THEN 0 ELSE 1)
    ELSE With(DivLimb(IF st[1] = <<>> THEN <<>> ELSE <<0>> \o st[1], d), LAMBDA qr :
              DivLimbs(<<qr[2], <<qr[1]>> \o st[2]>>, d, k - 1))

BDivSticky(a, d, k) ==
    With2(BShl(a, LimbBits - IntBitLen(d[Len(d)])),
          BShl(d, LimbBits - IntBitLen(d[Len(d)])), LAMBDA an, dn :
        DivLimbs(IF BCmp(an, dn) >= 0 THEN <<BSub(an, dn), <<1>>>> ELSE <<an, <<>>>>,
                 dn, k))

(***************************************************************************)
(* IEEE-754 binary64.  A float is a record: k = "fin" with value           *)
(* (-1)^sgn * man * 2^exp, where man is zero (exp 0, sgn 0) or has exactly *)
(* 53 bits; k = "inf" with a sign; or k = "nan".  The sign of a zero is    *)
(* not kept: nothing the program computes can tell -0.0 from 0.0.          *)
(* Subnormal results are not produced by any computation modelled here.    *)
(***************************************************************************)
MantBits == 53
MaxExp == 1024

FZero == [k |-> "fin", sgn |-> 0, man |-> <<>>, exp |-> 0]
FInf(s) == [k |-> "inf", sgn |-> s, man |-> <<>>, exp |-> 0]
FNan == [k |-> "nan", sgn |-> 0, man |-> <<>>, exp |-> 0]

IsZero(x) == x.k = "fin" /\ x.man = <<>>

\* (-1)^s * m * 2^e, m any natural, rounded to nearest, ties to even
Round(s, m, e) ==
    IF m = <<>> THEN FZero
    ELSE With(BitLen(m) - MantBits, LAMBDA sh :
         IF sh <= 0
         THEN IF e + sh + MantBits > MaxExp THEN FInf(s)
              ELSE [k |-> "fin", sgn |-> s, man |-> BShl(m, 0 - sh), exp |-> e + sh]
         ELSE With(BShr(m, sh), LAMBDA q :
              With(IF BBit(m, sh - 1) = 1 /\ (BLowBits(m, sh - 1) \/ BOdd(q))
                   THEN BAdd(q, <<1>>) ELSE q, LAMBDA q1 :
              With(IF BitLen(q1) > MantBits THEN 1 ELSE 0, LAMBDA carry :
                   IF e + sh + carry + MantBits > MaxExp THEN FInf(s)
                   ELSE [k |-> "fin", sgn |-> s, man |-> BShr(q1, carry),
                         exp |-> e + sh + carry]))))

\* float(n) for a natural n; an infinite result is Python's OverflowError
FromNat(n) == Round(0, n, 0)

F(n) == FromNat(BFromInt(n))

FNeg(x) == IF x.k = "nan" \/ IsZero(x) THEN x ELSE [x EXCEPT !.sgn = 1 - x.sgn]

(***************************************************************************)
(* x + y for finite x and y.  The mantissas are aligned exactly when the   *)
(* exponents are at most AlignBits apart; farther apart, the smaller       *)
(* operand lies wholly below the rounding position and acts as one sticky  *)
(* bit.                                                                    *)
(***************************************************************************)
AlignBits == 60

\* (-1)^sx * mx * 2^e + (-1)^sy * my * 2^e; equal magnitudes of opposite sign give zero
AddAligned(sx, mx, sy, my, e) ==
    With(BCmp(mx, my), LAMBDA c :
        Round(IF sx = sy \/ c >= 0 THEN sx ELSE sy,
              IF sx = sy THEN BAdd(mx, my)
              ELSE IF c >= 0 THEN BSub(mx, my) ELSE BSub(my, mx),
              e))

\* n held to lo..hi
Within(n, lo, hi) == IF n < lo THEN lo ELSE IF n > hi THEN hi ELSE n

FAddFin(x, y) ==
    IF IsZero(x) THEN y
    ELSE IF IsZero(y) THEN x
    ELSE With(x.exp - y.exp, LAMBDA d :
         AddAligned(x.sgn,
                    IF 0 - d > AlignBits THEN <<1>>
                    ELSE BShl(x.man, Within(d, 0, AlignBits)),
                    y.sgn,
                    IF d > AlignBits THEN <<1>>
                    ELSE BShl(y.man, Within(0 - d, 0, AlignBits)),
                    IF d > AlignBits THEN x.exp - AlignBits
                    ELSE IF 0 - d > AlignBits THEN y.exp - AlignBits
                    ELSE IF d > 0 THEN y.exp ELSE x.exp))

FAdd(x, y) ==
    IF x.k = "nan" \/ y.k = "nan" THEN FNan
    ELSE IF x.k = "inf" /\ y.k = "inf" THEN (IF x.sgn = y.sgn THEN x ELSE FNan)
    ELSE IF x.k = "inf" THEN x
    ELSE IF y.k = "inf" THEN y
    ELSE FAddFin(x, y)

FSub(x, y) == FAdd(x, FNeg(y))

FMul(x, y) ==
    IF x.k = "nan" \/ y.k = "nan" THEN FNan
    ELSE LET s == IF x.sgn = y.sgn THEN 0 ELSE 1 IN
         IF x.k = "inf" \/ y.k = "inf"
         THEN IF IsZero(x) \/ IsZero(y) THEN FNan ELSE FInf(s)
         ELSE Round(s, BMul(x.man, y.man), x.exp + y.exp)

\* x / y for finite x and finite y # 0; the quotient is taken to 60 bits and a sticky bit
DivLimbCount == 4

FDiv(x, y) ==
    IF IsZero(x) THEN FZero
    ELSE Round(IF x.sgn = y.sgn THEN 0 ELSE 1,
               BDivSticky(x.man, y.man, DivLimbCount),
               x.exp - y.exp - (LimbBits * DivLimbCount + 1))

\* comparison of finite floats: -1, 0, 1
FCmp(x, y) ==
    IF IsZero(x) /\ IsZero(y) THEN 0
    ELSE IF IsZero(x) THEN (IF y.sgn = 0 THEN -1 ELSE 1)
    ELSE IF IsZero(y) THEN (IF x.sgn = 0 THEN 1 ELSE -1)
    ELSE IF x.sgn # y.sgn THEN (IF x.sgn = 0 THEN 1 ELSE -1)
    ELSE LET c == IF x.exp # y.exp
                  THEN (IF x.exp > y.exp THEN 1 ELSE -1)
                  ELSE BCmp(x.man, y.man)
         IN  IF x.sgn = 0 THEN c ELSE 0 - c

FLt(x, y) == FCmp(x, y) < 0
FLe(x, y) == FCmp(x, y) <= 0
FEq(x, y) == FCmp(x, y) = 0

FMax(x, y) == IF FLt(x, y) THEN y ELSE x
FMin(x, y) == IF FLt(y, x) THEN y ELSE x

\* the integer part of |x|, as a natural, for finite x
TruncNat(x) ==
    IF IsZero(x) THEN <<>>
    ELSE IF x.exp >= 0 THEN BShl(x.man, x.exp)
    ELSE BShr(x.man, 0 - x.exp)

(***************************************************************************)
(* x % 1.0 for finite x (CPython float_rem): fmod is exact and keeps the   *)
(* sign of x; a negative remainder then has 1.0 added, which rounds.       *)
(***************************************************************************)
FMod1(x) ==
    IF IsZero(x) \/ x.exp >= 0 THEN FZero
    ELSE With(Round(x.sgn, BSub(x.man, BShl(TruncNat(x), 0 - x.exp)), x.exp), LAMBDA m :
              IF m.sgn = 1 THEN FAdd(m, F(1)) ELSE m)

(***************************************************************************)
(* Python values.  An int that may be negative or large is a record of a   *)
(* sign and a magnitude; a call that raises yields Raise(name).            *)
(***************************************************************************)
Raise(e) == [exc |-> e, val |-> <<>>]
Return(v) == [exc |-> "", val |-> v]
Raised(x) == x.exc # ""

PyInt(n) == [neg |-> n < 0, mag |-> BFromInt(IF n < 0 THEN 0 - n ELSE n)]

\* int(x) of a float: truncation toward zero
IntOfFloat(x) ==
    IF x.k = "nan" THEN Raise("ValueError")
    ELSE IF x.k = "inf" THEN Raise("OverflowError")
    ELSE With(TruncNat(x), LAMBDA m : Return([neg |-> x.sgn = 1 /\ m # <<>>, mag |-> m]))

\* round(x) where SmallIntOfFloat has int(x): the nearest integer
SmallIntOfFloatNearest(x) == BToInt(TruncNat(FAdd(x, FDiv(F(1), F(2)))))

\* int(x) of a float known to lie in 0 .. Base^2 - 1
SmallIntOfFloat(x) == BToInt(TruncNat(x))

\* n / d for an int n >= 0 and a float constant d: Python converts n first
IntDivFloat(n, d) ==
    With(FromNat(n), LAMBDA x :
        IF x.k = "inf" THEN Raise("OverflowError") ELSE Return(FDiv(x, d)))

(***************************************************************************)
(* colorsys (CPython 3.11), which color.py imports.                        *)
(***************************************************************************)
Half == FDiv(F(1), F(2))
ONE_THIRD == FDiv(F(1), F(3))
ONE_SIXTH == FDiv(F(1), F(6))
TWO_THIRD == FDiv(F(2), F(3))

rgb_to_hls(r, g, b) ==
    With2(FMax(FMax(r, g), b), FMin(FMin(r, g), b), LAMBDA maxc, minc :
    With2(FAdd(maxc, minc), FSub(maxc, minc), LAMBDA sumc, rangec :
    With(FDiv(sumc, F(2)), LAMBDA l :
        IF FEq(minc, maxc) THEN <<FZero, l, FZero>>
        ELSE With3(FDiv(FSub(maxc, r), rangec), FDiv(FSub(maxc, g), rangec),
                   FDiv(FSub(maxc, b), rangec), LAMBDA rc, gc, bc :
             << FMod1(FDiv(IF FEq(r, maxc) THEN FSub(bc, gc)
                           ELSE IF FEq(g, maxc) THEN FSub(FAdd(F(2), rc), bc)
                           ELSE FSub(FAdd(F(4), gc), rc),
                           F(6))),
                l,
                FDiv(rangec, IF FLe(l, Half) THEN sumc
                             ELSE FSub(FSub(F(2), maxc), minc)) >>))))

\* _v; hue is finite, m1 and m2 may be infinite
HlsV(m1, m2, hue0) ==
    With(FMod1(hue0), LAMBDA hue :
        IF FLt(hue, ONE_SIXTH) \/ (~FLt(hue, Half) /\ FLt(hue, TWO_THIRD))
        THEN FAdd(m1, FMul(FMul(FSub(m2, m1),
                                IF FLt(hue, ONE_SIXTH) THEN hue ELSE FSub(TWO_THIRD, hue)),
                           F(6)))
        ELSE IF FLt(hue, Half) THEN m2
        ELSE m1)

\* h, l, s are finite
hls_to_rgb(h, l, s) ==
    IF IsZero(s) THEN <<l, l, l>>
    ELSE With(IF FLe(l, Half) THEN FMul(l, FAdd(F(1), s))
              ELSE FSub(FAdd(l, s), FMul(l, s)), LAMBDA m2 :
         With(FSub(FMul(F(2), l), m2), LAMBDA m1 :
              <<HlsV(m1, m2, FAdd(h, ONE_THIRD)), HlsV(m1, m2, h),
                HlsV(m1, m2, FSub(h, ONE_THIRD))>>))

(***************************************************************************)
(* The codec of color.py.                                                  *)
(***************************************************************************)
\* rgb_to_hsl returning colorsys's order h, l, s unchanged
rgb_to_hslUnswapped(r, g, b) ==
    With(rgb_to_hls(FDiv(F(r), F(255)), FDiv(F(g), F(255)), FDiv(F(b), F(255))),
         LAMBDA hls :
        <<SmallIntOfFloat(FMul(hls[1], F(360))),
          SmallIntOfFloat(FMul(hls[2], F(100))),
          SmallIntOfFloat(FMul(hls[3], F(100)))>>)

\* rgb_to_hsl for r, g, b in 0..255: <<h, s, l>>
rgb_to_hsl(r, g, b) ==
    With(rgb_to_hls(FDiv(F(r), F(255)), FDiv(F(g), F(255)), FDiv(F(b), F(255))),
         LAMBDA hls :
        <<SmallIntOfFloat(FMul(hls[1], F(360))),
          SmallIntOfFloat(FMul(hls[3], F(100))),
          SmallIntOfFloat(FMul(hls[2], F(100)))>>)

\* the first of the results rs that raised, or Return of all their values
AllOf(rs) ==
    IF \E i \in DOMAIN rs : Raised(rs[i])
    THEN rs[CHOOSE i \in DOMAIN rs : Raised(rs[i]) /\ \A j \in 1..(i - 1) : ~Raised(rs[j])]
    ELSE Return([i \in DOMAIN rs |-> rs[i].val])

\* hsl_to_rgb_tuple handing h, s, l to colorsys.hls_to_rgb in that order
hsl_to_rgb_tupleUnswapped(h, s, l) ==
    With(AllOf(<<IntDivFloat(h, F(360)), IntDivFloat(s, F(100)), IntDivFloat(l, F(100))>>),
         LAMBDA hls :
        IF Raised(hls) THEN hls
        ELSE With(hls_to_rgb(hls.val[1], hls.val[2], hls.val[3]), LAMBDA rgb1 :
             AllOf(<<IntOfFloat(FMul(rgb1[1], F(255))), IntOfFloat(FMul(rgb1[2], F(255))),
                     IntOfFloat(FMul(rgb1[3], F(255)))>>)))

\* hsl_to_rgb_tuple for naturals h, s, l (in limbs): three Python ints, or raises
hsl_to_rgb_tuple(h, s, l) ==
    With(AllOf(<<IntDivFloat(h, F(360)), IntDivFloat(l, F(100)), IntDivFloat(s, F(100))>>),
         LAMBDA hls :
        IF Raised(hls) THEN hls
        ELSE With(hls_to_rgb(hls.val[1], hls.val[2], hls.val[3]), LAMBDA rgb1 :
             AllOf(<<IntOfFloat(FMul(rgb1[1], F(255))), IntOfFloat(FMul(rgb1[2], F(255))),
                     IntOfFloat(FMul(rgb1[3], F(255)))>>)))

(***************************************************************************)
(* Characters and strings.  A string is a sequence of characters; the two  *)
(* non-ASCII characters of color.py are named.                             *)
(***************************************************************************)
BLOCK == "U+2588"
BULLET == "U+2022"

DecChars == <<"0", "1", "2", "3", "4", "5", "6", "7", "8", "9">>
LowerHexChars == DecChars \o <<"a", "b", "c", "d", "e", "f">>
UpperHexChars == DecChars \o <<"A", "B", "C", "D", "E", "F">>
LowerLetters == <<"a", "b", "c", "d", "e", "f", "g", "h", "i", "j", "k", "l", "m",
                  "n", "o", "p", "q", "r", "s", "t", "u", "v", "w", "x", "y", "z">>
UpperLetters == <<"A", "B", "C", "D", "E", "F", "G", "H", "I", "J", "K", "L", "M",
                  "N", "O", "P", "Q", "R", "S", "T", "U", "V", "W", "X", "Y", "Z">>

Range(f) == {f[i] : i \in DOMAIN f}
IndexOf(f, c) == CHOOSE i \in DOMAIN f : f[i] = c

IsDigit(c) == c \in Range(DecChars)
IsLowerHex(c) == c \in Range(LowerHexChars)
IsHexDigit(c) == c \in Range(LowerHexChars) \cup Range(UpperHexChars)
IsSpace(c) == c \in {" ", "\t", "\n", "\r"}

DigitVal(c) == IndexOf(DecChars, c) - 1
HexVal(c) ==
    IF c \in Range(LowerHexChars) THEN IndexOf(LowerHexChars, c) - 1
    ELSE IndexOf(UpperHexChars, c) - 1

LowerChar(c) ==
    IF c \in Range(UpperLetters) THEN LowerLetters[IndexOf(UpperLetters, c)] ELSE c
UpperChar(c) ==
    IF c \in Range(LowerLetters) THEN UpperLetters[IndexOf(LowerLetters, c)] ELSE c

\* str.lower left out
LowerSkipped(s) == s

\* str.lower, str.upper
Lower(s) == [i \in 1..Len(s) |-> LowerChar(s[i])]
Upper(s) == [i \in 1..Len(s) |-> UpperChar(s[i])]

\* s[a:b] of Python, for 0 <= a <= b
Slice(s, a, b) ==
    LET e == IF b < Len(s) THEN b ELSE Len(s)
    IN  IF a >= e THEN <<>> ELSE SubSeq(s, a + 1, e)

\* the first position >= i of s that holds no space (no digit, no "#"): Len(s) + 1 if none
SkipSpace(s, i) ==
    CHOOSE j \in i..(Len(s) + 1) :
        /\ \A k \in i..(j - 1) : IsSpace(s[k])
        /\ j > Len(s) \/ ~IsSpace(s[j])
SkipDigits(s, i) ==
    CHOOSE j \in i..(Len(s) + 1) :
        /\ \A k \in i..(j - 1) : IsDigit(s[k])
        /\ j > Len(s) \/ ~IsDigit(s[j])
SkipHash(s, i) ==
    CHOOSE j \in i..(Len(s) + 1) :
        /\ \A k \in i..(j - 1) : s[k] = "#"
        /\ j > Len(s) \/ s[j] # "#"
\* the last position <= j of s that holds no space: 0 if none
LastNonSpace(s, j) ==
    CHOOSE i \in 0..j :
        /\ \A k \in (i + 1)..j : IsSpace(s[k])
        /\ i = 0 \/ ~IsSpace(s[i])

\* str.strip()
Strip(s) ==
    LET a == SkipSpace(s, 1)
        b == LastNonSpace(s, Len(s))
    IN  IF a > b THEN <<>> ELSE SubSeq(s, a, b)

\* str.lstrip("#")
LStripHash(s) == LET a == SkipHash(s, 1) IN IF a > Len(s) THEN <<>> ELSE SubSeq(s, a, Len(s))

(***************************************************************************)
(* int(s, 16) for a slice s of at most two characters: surrounding         *)
(* whitespace is dropped, one sign is allowed, and what is left must be    *)
(* one or two hex digits (in so short a string no "0x" prefix and no       *)
(* underscore can be part of a valid literal).                             *)
(***************************************************************************)
IntBase16(s) ==
    With(Strip(s), LAMBDA t :
    With(IF t # <<>> /\ t[1] \in {"+", "-"} THEN Tail(t) ELSE t, LAMBDA d :
        IF d = <<>> \/ \E i \in 1..Len(d) : ~IsHexDigit(d[i])
        THEN Raise("ValueError")
        ELSE With(IF Len(d) = 1 THEN HexVal(d[1]) ELSE 16 * HexVal(d[1]) + HexVal(d[2]),
                  LAMBDA v : Return(IF t[1] = "-" THEN 0 - v ELSE v))))

\* int(s) for a string of ASCII digits, as a natural in limbs
RECURSIVE Pow10(_)
Pow10(n) ==
    IF n = 0 THEN <<1>>
    ELSE With(Pow10(n \div 2), LAMBDA h :
              BMulSmall(BMul(h, h), IF n % 2 = 1 THEN 10 ELSE 1, 0))

RECURSIVE IntOfDigits(_)
IntOfDigits(s) ==
    IF Len(s) <= 4
    THEN BFromInt(IF Len(s) = 0 THEN 0
                  ELSE IF Len(s) = 1 THEN DigitVal(s[1])
                  ELSE IF Len(s) = 2 THEN 10 * DigitVal(s[1]) + DigitVal(s[2])
                  ELSE IF Len(s) = 3
                       THEN 100 * DigitVal(s[1]) + 10 * DigitVal(s[2]) + DigitVal(s[3])
                  ELSE 1000 * DigitVal(s[1]) + 100 * DigitVal(s[2])
                       + 10 * DigitVal(s[3]) + DigitVal(s[4]))
    ELSE LET k == Len(s) \div 2
         IN  BAdd(BMul(IntOfDigits(SubSeq(s, 1, Len(s) - k)), Pow10(k)),
                  IntOfDigits(SubSeq(s, Len(s) - k + 1, Len(s))))

\* str(n) and format(n, "02x") for a natural n < 2^31
RECURSIVE DecStr(_)
DecStr(n) ==
    IF n < 10 THEN <<DecChars[n + 1]>>
    ELSE DecStr(n \div 10) \o <<DecChars[(n % 10) + 1]>>
RECURSIVE HexStr(_)
HexStr(n) ==
    IF n < 16 THEN <<LowerHexChars[n + 1]>>
    ELSE HexStr(n \div 16) \o <<LowerHexChars[(n % 16) + 1]>>
\* format(n, "x"): Hex02 without the padding to two digits
Hex02Unpadded(n) == HexStr(n)
Hex02(n) == IF n < 16 THEN <<"0">> \o HexStr(n) ELSE HexStr(n)

(***************************************************************************)
(* hex_to_rgb and rgb_to_hex.                                              *)
(***************************************************************************)
\* hex_to_rgb: Return(<<r, g, b>>) or Raise("ValueError")
\* "".join(c * 2 for c in h)
Doubled(h) == [i \in 1..(2 * Len(h)) |-> h[(i + 1) \div 2]]

hex_to_rgb(hex_color) ==
    With(LStripHash(hex_color), LAMBDA h0 :
    With(IF Len(h0) = 3 THEN Doubled(h0) ELSE h0, LAMBDA h :
        AllOf(<<IntBase16(Slice(h, 0, 2)), IntBase16(Slice(h, 2, 4)),
                IntBase16(Slice(h, 4, 6))>>)))

\* rgb_to_hex for naturals r, g, b
rgb_to_hex(r, g, b) == <<"#">> \o Hex02(r) \o Hex02(g) \o Hex02(b)

(***************************************************************************)
(* The string literals of color.py.                                        *)
(***************************************************************************)
\* "rgb"
S_rgb ==
    <<"r", "g", "b">>
\* "hsl"
S_hsl ==
    <<"h", "s", "l">>
\* "█████"
S_preview ==
    <<BLOCK, BLOCK, BLOCK, BLOCK, BLOCK>>
\* "Hex Color • Click to copy"
S_hex_subtitle ==
    <<"H", "e", "x", " ", "C", "o", "l", "o", "r", " ", BULLET, " ", "C",
      "l", "i", "c", "k", " ", "t", "o", " ", "c", "o", "p", "y">>
\* "RGB Color • Click to copy"
S_rgb_subtitle ==
    <<"R", "G", "B", " ", "C", "o", "l", "o", "r", " ", BULLET, " ", "C",
      "l", "i", "c", "k", " ", "t", "o", " ", "c", "o", "p", "y">>
\* "HSL Color • Click to copy"
S_hsl_subtitle ==
    <<"H", "S", "L", " ", "C", "o", "l", "o", "r", " ", BULLET, " ", "C",
      "l", "i", "c", "k", " ", "t", "o", " ", "c", "o", "p", "y">>
\* "CSS Variable • Click to copy"
S_css_subtitle ==
    <<"C", "S", "S", " ", "V", "a", "r", "i", "a", "b", "l", "e", " ",
      BULLET, " ", "C", "l", "i", "c", "k", " ", "t", "o", " ", "c", "o",
      "p", "y">>
\* "Add to tailwind.config.js colors"
S_tw_subtitle ==
    <<"A", "d", "d", " ", "t", "o", " ", "t", "a", "i", "l", "w", "i", "n",
      "d", ".", "c", "o", "n", "f", "i", "g", ".", "j", "s", " ", "c", "o",
      "l", "o", "r", "s">>
\* "echo -n '"
S_echo ==
    <<"e", "c", "h", "o", " ", "-", "n", " ", "'">>
\* "' | wl-copy && notify-send 'Color Copied' '"
S_copy_notify ==
    <<"'", " ", "|", " ", "w", "l", "-", "c", "o", "p", "y", " ", "&", "&",
      " ", "n", "o", "t", "i", "f", "y", "-", "s", "e", "n", "d", " ", "'",
      "C", "o", "l", "o", "r", " ", "C", "o", "p", "i", "e", "d", "'", " ",
      "'">>
\* "' | wl-copy && notify-send 'Color Copied' 'CSS Variable'"
S_copy_css ==
    <<"'", " ", "|", " ", "w", "l", "-", "c", "o", "p", "y", " ", "&", "&",
      " ", "n", "o", "t", "i", "f", "y", "-", "s", "e", "n", "d", " ", "'",
      "C", "o", "l", "o", "r", " ", "C", "o", "p", "i", "e", "d", "'", " ",
      "'", "C", "S", "S", " ", "V", "a", "r", "i", "a", "b", "l", "e", "'">>
\* "' | wl-copy && notify-send 'Color Copied' 'For Tailwind'"
S_copy_tw ==
    <<"'", " ", "|", " ", "w", "l", "-", "c", "o", "p", "y", " ", "&", "&",
      " ", "n", "o", "t", "i", "f", "y", "-", "s", "e", "n", "d", " ", "'",
      "C", "o", "l", "o", "r", " ", "C", "o", "p", "i", "e", "d", "'", " ",
      "'", "F", "o", "r", " ", "T", "a", "i", "l", "w", "i", "n", "d", "'">>
\* "--color: "
S_css_open ==
    <<"-", "-", "c", "o", "l", "o", "r", ":", " ">>
\* "Use hex "
S_tw_open ==
    <<"U", "s", "e", " ", "h", "e", "x", " ">>
\* " in Tailwind"
S_tw_close ==
    <<" ", "i", "n", " ", "T", "a", "i", "l", "w", "i", "n", "d">>
\* "Enter a color..."
S_prompt_title ==
    <<"E", "n", "t", "e", "r", " ", "a", " ", "c", "o", "l", "o", "r", ".",
      ".", ".">>
\* "Examples: #FF5733, rgb(255,87,51), hsl(9,100%,60%)"
S_prompt_subtitle ==
    <<"E", "x", "a", "m", "p", "l", "e", "s", ":", " ", "#", "F", "F", "5",
      "7", "3", "3", ",", " ", "r", "g", "b", "(", "2", "5", "5", ",", "8",
      "7", ",", "5", "1", ")", ",", " ", "h", "s", "l", "(", "9", ",", "1",
      "0", "0", "%", ",", "6", "0", "%", ")">>
\* "echo 'Enter a color' | wl-copy"
S_prompt_command ==
    <<"e", "c", "h", "o", " ", "'", "E", "n", "t", "e", "r", " ", "a", " ",
      "c", "o", "l", "o", "r", "'", " ", "|", " ", "w", "l", "-", "c", "o",
      "p", "y">>
\* "Invalid color format"
S_invalid_title ==
    <<"I", "n", "v", "a", "l", "i", "d", " ", "c", "o", "l", "o", "r", " ",
      "f", "o", "r", "m", "a", "t">>
\* "Could not parse: "
S_invalid_subtitle ==
    <<"C", "o", "u", "l", "d", " ", "n", "o", "t", " ", "p", "a", "r", "s",
      "e", ":", " ">>
\* "echo 'Invalid color' | wl-copy"
S_invalid_command ==
    <<"e", "c", "h", "o", " ", "'", "I", "n", "v", "a", "l", "i", "d", " ",
      "c", "o", "l", "o", "r", "'", " ", "|", " ", "w", "l", "-", "c", "o",
      "p", "y">>
\* "Supported formats:"
S_formats_title ==
    <<"S", "u", "p", "p", "o", "r", "t", "e", "d", " ", "f", "o", "r", "m",
      "a", "t", "s", ":">>
\* "#FF5733, rgb(255,87,51), hsl(9,100%,60%)"
S_formats_subtitle ==
    <<"#", "F", "F", "5", "7", "3", "3", ",", " ", "r", "g", "b", "(", "2",
      "5", "5", ",", "8", "7", ",", "5", "1", ")", ",", " ", "h", "s", "l",
      "(", "9", ",", "1", "0", "0", "%", ",", "6", "0", "%", ")">>
\* "echo 'See examples' | wl-copy"
S_formats_command ==
    <<"e", "c", "h", "o", " ", "'", "S", "e", "e", " ", "e", "x", "a", "m",
      "p", "l", "e", "s", "'", " ", "|", " ", "w", "l", "-", "c", "o", "p",
      "y">>

(***************************************************************************)
(* The regular expressions of parse_color, matched at the start of the     *)
(* string as re.match does.  A position is an index into the string; 0     *)
(* stands for "no match".  Every repetition is greedy and is followed by a *)
(* character it cannot itself match, so backtracking finds nothing more.   *)
(***************************************************************************)
\* the literal w at position i
Lit(s, i, w) ==
    IF i > 0 /\ i + Len(w) - 1 <= Len(s) /\ SubSeq(s, i, i + Len(w) - 1) = w
    THEN i + Len(w) ELSE 0
\* the character c at i; c?; \s*; \d+
Ch(s, i, c) == IF i > 0 /\ i <= Len(s) /\ s[i] = c THEN i + 1 ELSE 0
Opt(s, i, c) == IF i > 0 /\ i <= Len(s) /\ s[i] = c THEN i + 1 ELSE i
Ws(s, i) == IF i = 0 THEN 0 ELSE SkipSpace(s, i)
Num(s, i) == IF i = 0 THEN 0 ELSE LET j == SkipDigits(s, i) IN IF j > i THEN j ELSE 0
\* \s*,\s*
Comma(s, i) == Ws(s, Ch(s, Ws(s, i), ","))

\* $: the end of the string, or just before a newline that ends it
AtDollar(s, j) == j = Len(s) + 1 \/ (j = Len(s) /\ s[j] = "\n")
\* [0-9a-f]{n} at i
LowerHexRun(s, i, n) == i + n - 1 <= Len(s) /\ \A k \in i..(i + n - 1) : IsLowerHex(s[k])

NoMatch == <<>>

\* ^#?([0-9a-f]{3}|[0-9a-f]{6})$ : the group, in a one-element tuple
MatchHex(s) ==
    With(Opt(s, 1, "#"), LAMBDA i :
        IF LowerHexRun(s, i, 3) /\ AtDollar(s, i + 3) THEN <<SubSeq(s, i, i + 2)>>
        ELSE IF LowerHexRun(s, i, 6) /\ AtDollar(s, i + 6) THEN <<SubSeq(s, i, i + 5)>>
        ELSE NoMatch)

\* (\d+)\s*,\s*(\d+)%?\s*,\s*(\d+)%? from position a1, and then \s*\) when paren
\* (pct tells whether the "%?" are part of the pattern): the three groups
MatchTriple(s, a1, pct, paren) ==
    With(Num(s, a1), LAMBDA b1 :
    With(Comma(s, b1), LAMBDA a2 :
    With(Num(s, a2), LAMBDA b2 :
    With(Comma(s, IF pct THEN Opt(s, b2, "%") ELSE b2), LAMBDA a3 :
    With(Num(s, a3), LAMBDA b3 :
    With(IF pct THEN Opt(s, b3, "%") ELSE b3, LAMBDA c3 :
        IF (IF paren THEN Ch(s, Ws(s, c3), ")") ELSE c3) = 0 THEN NoMatch
        ELSE <<SubSeq(s, a1, b1 - 1), SubSeq(s, a2, b2 - 1), SubSeq(s, a3, b3 - 1)>>))))))

\* the rgb pattern, matching only a string that ends with the ")"
MatchRgbAnchored(s) ==
    IF s = <<>> \/ s[Len(s)] # ")" THEN NoMatch
    ELSE MatchTriple(s, Ws(s, Ch(s, Ws(s, Lit(s, 1, S_rgb)), "(")), FALSE, TRUE)

\* rgb\s*\(\s*(\d+)\s*,\s*(\d+)\s*,\s*(\d+)\s*\) : the three groups
MatchRgb(s) == MatchTriple(s, Ws(s, Ch(s, Ws(s, Lit(s, 1, S_rgb)), "(")), FALSE, TRUE)

\* (\d+)\s*,\s*(\d+)\s*,\s*(\d+) : the three groups
MatchComma(s) == MatchTriple(s, 1, FALSE, FALSE)

\* hsl\s*\(\s*(\d+)\s*,\s*(\d+)%?\s*,\s*(\d+)%?\s*\) : the three groups
MatchHsl(s) == MatchTriple(s, Ws(s, Ch(s, Ws(s, Lit(s, 1, S_hsl)), "(")), TRUE, TRUE)

(***************************************************************************)
(* parse_color: Return(None), Return(<<format, r, g, b>>) with r, g, b     *)
(* Python ints, or Raise(e) when a conversion raises.                      *)
(***************************************************************************)
None == <<>>
NatInt(ds) == [neg |-> FALSE, mag |-> IntOfDigits(ds)]

\* the format name put before the three channels of a conversion that did not raise
Tagged(fmt, t) == IF Raised(t) THEN t ELSE Return(<<fmt>> \o t.val)

parse_color(color_str) ==
    With(Lower(Strip(color_str)), LAMBDA s :
    With(MatchHex(s), LAMBDA hex_match :
        IF hex_match # NoMatch
        THEN With(hex_to_rgb(hex_match[1]), LAMBDA t :
                  Tagged("hex", IF Raised(t) THEN t
                                ELSE Return([i \in 1..3 |-> PyInt(t.val[i])])))
        ELSE With(MatchRgb(s), LAMBDA rgb_match :
        IF rgb_match # NoMatch
        THEN Return(<<"rgb", NatInt(rgb_match[1]), NatInt(rgb_match[2]),
                      NatInt(rgb_match[3])>>)
        ELSE With(MatchComma(s), LAMBDA comma_match :
        IF comma_match # NoMatch
        THEN Return(<<"rgb", NatInt(comma_match[1]), NatInt(comma_match[2]),
                      NatInt(comma_match[3])>>)
        ELSE With(MatchHsl(s), LAMBDA hsl_match :
        IF hsl_match # NoMatch
        THEN Tagged("hsl", hsl_to_rgb_tuple(IntOfDigits(hsl_match[1]),
                                            IntOfDigits(hsl_match[2]),
                                            IntOfDigits(hsl_match[3])))
        ELSE Return(None))))))

(***************************************************************************)
(* generate_color_results and the results main builds itself.              *)
(***************************************************************************)
Entry(t, s, c) == [title |-> t, subtitle |-> s, command |-> c]

\* max(0, x): Clamp without its upper limit
ClampBelow(x) == IF x.neg THEN 0 ELSE BToInt(x.mag)

\* max(0, min(255, x)) for a Python int x
Clamp(x) ==
    IF x.neg THEN 0
    ELSE IF BCmp(x.mag, <<255>>) > 0 THEN 255
    ELSE BToInt(x.mag)

Titled(text) == S_preview \o <<" ", " ">> \o text

\* the entry that shows text and copies it
CopyEntry(text, subtitle) ==
    Entry(Titled(text), subtitle, S_echo \o text \o S_copy_notify \o text \o <<"'">>)

\* rgb_to_hex(r, g, b) without .upper()
HexColorAsIs(r, g, b) == rgb_to_hex(r, g, b)

\* rgb_to_hex(r, g, b).upper()
HexColor(r, g, b) == Upper(rgb_to_hex(r, g, b))

generate_color_results(r0, g0, b0, original_format) ==
    With3(Clamp(r0), Clamp(g0), Clamp(b0), LAMBDA r, g, b :
    With2(HexColor(r, g, b), rgb_to_hsl(r, g, b), LAMBDA hex_color, hsl :
        << CopyEntry(hex_color, S_hex_subtitle),
           CopyEntry(S_rgb \o <<"(">> \o DecStr(r) \o <<",", " ">> \o DecStr(g)
                     \o <<",", " ">> \o DecStr(b) \o <<")">>,
                     S_rgb_subtitle),
           CopyEntry(S_hsl \o <<"(">> \o DecStr(hsl[1]) \o <<",", " ">> \o DecStr(hsl[2])
                     \o <<"%", ",", " ">> \o DecStr(hsl[3]) \o <<"%", ")">>,
                     S_hsl_subtitle),
           Entry(Titled(S_css_open \o hex_color \o <<";">>), S_css_subtitle,
                 S_echo \o S_css_open \o hex_color \o <<";">> \o S_copy_css),
           Entry(Titled(S_tw_open \o hex_color \o S_tw_close), S_tw_subtitle,
                 S_echo \o hex_color \o S_copy_tw) >>))

PromptResults == <<Entry(S_prompt_title, S_prompt_subtitle, S_prompt_command)>>

InvalidResults(q) ==
    << Entry(S_invalid_title, S_invalid_subtitle \o q, S_invalid_command),
       Entry(S_formats_title, S_formats_subtitle, S_formats_command) >>

(***************************************************************************)
(* The inputs explored.  Queries are command-line arguments of main; hex   *)
(* strings and RGB triples are arguments of the codec functions.           *)
(***************************************************************************)
\* hex-like strings have at most MaxHexLen characters after the "#"
MaxHexLen == 7
\* channel values 0..MaxLow and 255-MaxLow..255 are explored, with a few in between
MaxLow == 2

RECURSIVE StringsOver(_, _)
StringsOver(alphabet, n) ==
    IF n = 0 THEN {<<>>}
    ELSE LET shorter == StringsOver(alphabet, n - 1)
         IN  shorter \cup {Append(w, c) : w \in {v \in shorter : Len(v) = n - 1}, c \in alphabet}

\* optional "#", then up to MaxHexLen characters, hex digits of both cases or not
HexLikeQueries ==
    {pre \o w : pre \in {<<>>, <<"#">>}, w \in StringsOver({"a", "F", "z"}, MaxHexLen)}

NumberTriples ==
    { <<<<"2", "5", "5">>, <<"8", "7">>, <<"5", "1">>>>, <<<<"9">>, <<"1", "0", "0">>, <<"6", "0">>>>, <<<<"9", "9", "9">>, <<"0">>, <<"0">>>>,
      <<<<"4", "0", "0">>, <<"2", "0", "0">>, <<"3", "0", "0">>>>, <<<<"1">>, <<"2">>, <<"3">>>>, <<<<"0", "0", "7">>, <<"0", "8">>, <<"1", "0", "0", "0">>>>,
      <<<<"3", "5", "9">>, <<"1", "0", "0">>, <<"5", "0">>>>, <<<<"0">>, <<"0">>, <<"0">>>> }

Tails == {<<>>, <<"x">>, <<"7">>, <<" ", "7">>}

\* name, "(", three numbers with separators and optional "%", ")", and a tail
FunctionalQueries ==
    { fn \o open \o n[1] \o sep \o n[2] \o pct \o sep \o n[3] \o pct \o close \o t :
        fn \in {S_rgb, S_hsl}, open \in {<<"(">>, <<" ", "(", " ">>},
        n \in NumberTriples, sep \in {<<",">>, <<",", " ">>}, pct \in {<<>>, <<"%">>},
        close \in {<<")">>, <<>>}, t \in Tails }

BareQueries ==
    { n[1] \o sep \o n[2] \o sep \o n[3] \o t :
        n \in NumberTriples, sep \in {<<",">>, <<",", " ">>, <<" ", ",">>},
        t \in Tails \cup {<<")">>, <<",", "4">>} }

Nines(n) == [i \in 1..n |-> "9"]

\* numbers too large for a float, and numbers whose product is
LongQueries ==
    { <<"h", "s", "l", "(">> \o Nines(309) \o <<",", "0", ",", "0", ")">>,
      <<"h", "s", "l", "(", "0", ",">> \o Nines(155) \o <<",">> \o Nines(155) \o <<")">>,
      <<"h", "s", "l", "(", "6", "0", ",">> \o Nines(155) \o <<",">> \o Nines(155) \o <<")">>,
      <<"h", "s", "l", "(", "0", ",", "0", ",">> \o Nines(308) \o <<")">>,
      <<"h", "s", "l", "(", "0", ",", "0", ",">> \o Nines(306) \o <<")">>,
      <<"r", "g", "b", "(">> \o Nines(40) \o <<",", "0", ",", "3", "0", "0", ")">> }

OtherQueries ==
    { <<>>, <<"n", "o", "t", " ", "a", " ", "c", "o", "l", "o", "r">>, <<"r", "e", "d">>, <<"#", "F", "F", "5", "7", "3", "3">>, <<"f", "f", "5", "7", "3", "3">>, <<"#", "a", "b", "c">>, <<"A", "B", "C", "D", "E", "F">>,
      <<" ", "#", "A", "b", "C", " ">>, <<"a", "b", "c", " ">>, <<"#", "z", "z", "z">>, <<"#", "a", "b", "c", "d">>, <<"#", "#", "a", "b", "c">>, <<"#", "a", "b", "c", "#">>,
      <<"R", "G", "B", "(", "2", "5", "5", ",", " ", "8", "7", ",", " ", "5", "1", ")">>, <<"r", "g", "b", " ", "(", "1", " ", ",", " ", "2", " ", ",", "3", " ", ")", "g", "a", "r", "b", "a", "g", "e">>, <<"r", "g", "b", "(", "1", ",", "2", ",", "3">>, <<"r", "g", "b", "(", "1", ",", ",", "3", ")">>,
      <<"r", "g", "b", "(", "1", " ", "2", ",", "3", ",", "4", ")">>, <<"x", "r", "g", "b", "(", "1", ",", "2", ",", "3", ")">>, <<" ", "1", ",", "2", ",", "3", " ">>, <<"1", ",", "2">>, <<"1", ",", "2", ",">>, <<"-", "1", ",", "2", ",", "3">>,
      <<"H", "S", "L", "(", "9", ",", " ", "1", "0", "0", "%", ",", " ", "6", "0", "%", ")">>, <<"h", "s", "l", "(", "9", ",", "1", "0", "0", "%", "%", ",", "6", "0", "%", ")">>, <<"h", "s", "l", "(", "9", " ", "%", ",", "1", "0", "0", ",", "6", "0", ")">>,
      <<"h", "s", "l", "(", "9", ",", "1", "0", "0", " ", "%", ",", "6", "0", ")">>, <<"h", "s", "l", "(", "9", ",", "1", "0", "0", "%", " ", ",", "6", "0", "%", " ", ")">>, <<"h", "s", "l", "(", "9", "%", ",", "1", "0", "0", ",", "6", "0", ")">>,
      <<"h", "s", "l", "(", "1", "2", "3", "4", "5", "6", "7", "8", "9", "0", "1", "2", ",", "5", ",", "6", ")">>, <<"h", "s", "l", "(", "3", "0", ",", "9", "9", "9", "9", "9", ",", "7", "0", "0", "0", "0", ")">> }

Queries == HexLikeQueries \cup FunctionalQueries \cup BareQueries \cup LongQueries
           \cup OtherQueries

ChannelValues ==
    (0..MaxLow) \cup ((255 - MaxLow)..255) \cup {5, 51, 87, 240, 244}

RgbInputs == {<<r, g, b>> : r \in ChannelValues, g \in ChannelValues, b \in ChannelValues}

\* arguments of hex_to_rgb: short strings over a mixed alphabet, longer ones of hex digits
HexInputs ==
    {pre \o w : pre \in {<<>>, <<"#">>},
               w \in StringsOver({"a", "F", "5", "z", "+", " "}, 3)
                     \cup StringsOver({"a", "5"}, MaxHexLen + 1)}
    \cup {<<"#", "#", "a", "b", "c">>, <<"#", "F", "F", "5", "7", "3", "3">>, <<"-", "1", "-", "2", "-", "3">>, <<"+", "f", "+", "f", "+", "f">>, <<"a", "b", " ", "c", "d", "e">>, <<"a", "b", "c", "d", "e", "g">>, <<"#", "a", "b", "c", "d", "e", "z">>}

(***************************************************************************)
(* The state.  pc is the position of the run; the other variables hold     *)
(* what the run has computed so far (<<>> until then).                     *)
(***************************************************************************)
VARIABLES
    pc,        \* where the run is
    query,     \* main: sys.argv[1], "" when absent
    parsed,    \* main: what parse_color returned
    error,     \* main: the exception that ended the run, "" if none
    output,    \* main: the results printed
    rgb,       \* codec: an RGB triple
    hexed,     \* codec: a hex string, rgb_to_hex(rgb) or given
    unhexed,   \* codec: hex_to_rgb(hexed)
    hsl,       \* codec: rgb_to_hsl(rgb)
    back       \* codec: hsl_to_rgb_tuple(hsl)

vars == <<pc, query, parsed, error, output, rgb, hexed, unhexed, hsl, back>>
mainVars == <<query, parsed, error, output>>
codecVars == <<rgb, hexed, unhexed, hsl, back>>

(***************************************************************************)
(* main: one run of the plugin on one query.                               *)
(***************************************************************************)
Init ==
    /\ pc = "start"
    /\ query \in Queries
    /\ parsed = <<>>
    /\ error = ""
    /\ output = <<>>
    /\ rgb = <<>> /\ hexed = <<>> /\ unhexed = <<>> /\ hsl = <<>> /\ back = <<>>

\* no query: the prompt
Prompt ==
    /\ pc = "start"
    /\ query = <<>>
    /\ output' = PromptResults
    /\ pc' = "done"
    /\ UNCHANGED <<query, parsed, error>>
    /\ UNCHANGED codecVars

\* what main does with the result p of parse_color: an exception ends the run
Outcome(p) ==
    IF Raised(p)
    THEN pc' = "crashed" /\ error' = p.exc /\ UNCHANGED parsed
    ELSE pc' = "parsed" /\ parsed' = p.val /\ UNCHANGED error

\* parsed = parse_color(query)
Parse ==
    /\ pc = "start"
    /\ query # <<>>
    /\ Outcome(parse_color(query))
    /\ UNCHANGED <<query, output>>
    /\ UNCHANGED codecVars

\* a colour was recognized: its representations
Render ==
    /\ pc = "parsed"
    /\ parsed # None
    /\ output' = generate_color_results(parsed[2], parsed[3], parsed[4], parsed[1])
    /\ pc' = "done"
    /\ UNCHANGED <<query, parsed, error>>
    /\ UNCHANGED codecVars

\* nothing was recognized: the "could not parse" results
Reject ==
    /\ pc = "parsed"
    /\ parsed = None
    /\ output' = InvalidResults(query)
    /\ pc' = "done"
    /\ UNCHANGED <<query, parsed, error>>
    /\ UNCHANGED codecVars

Next == Prompt \/ Parse \/ Render \/ Reject

Spec == Init /\ [][Next]_vars

(***************************************************************************)
(* The codec functions applied to their own inputs: an RGB triple taken    *)
(* to hex and back or to HSL and back, or a string handed to hex_to_rgb.   *)
(***************************************************************************)
CodecInit ==
    /\ \/ pc = "rgb" /\ rgb \in RgbInputs /\ hexed = <<>>
       \/ pc = "hex" /\ rgb = <<>> /\ hexed \in HexInputs
    /\ unhexed = <<>> /\ hsl = <<>> /\ back = <<>>
    /\ query = <<>> /\ parsed = <<>> /\ error = "" /\ output = <<>>

RgbToHex ==
    /\ pc = "rgb"
    /\ hexed' = rgb_to_hex(rgb[1], rgb[2], rgb[3])
    /\ pc' = "hex"
    /\ UNCHANGED <<rgb, unhexed, hsl, back>>
    /\ UNCHANGED mainVars

HexToRgb ==
    /\ pc = "hex"
    /\ unhexed' = hex_to_rgb(hexed)
    /\ pc' = "unhexed"
    /\ UNCHANGED <<rgb, hexed, hsl, back>>
    /\ UNCHANGED mainVars

RgbToHsl ==
    /\ pc = "rgb"
    /\ hsl' = rgb_to_hsl(rgb[1], rgb[2], rgb[3])
    /\ pc' = "hsl"
    /\ UNCHANGED <<rgb, hexed, unhexed, back>>
    /\ UNCHANGED mainVars

HslToRgb ==
    /\ pc = "hsl"
    /\ back' = hsl_to_rgb_tuple(BFromInt(hsl[1]), BFromInt(hsl[2]), BFromInt(hsl[3]))
    /\ pc' = "back"
    /\ UNCHANGED <<rgb, hexed, unhexed, hsl>>
    /\ UNCHANGED mainVars

CodecNext == RgbToHex \/ HexToRgb \/ RgbToHsl \/ HslToRgb

CodecSpec == CodecInit /\ [][CodecNext]_vars

(***************************************************************************)
(* Properties of the codec functions, checked under CodecSpec.             *)
(***************************************************************************)
\* s without one leading "#"
StripOneHash(s) == IF s # <<>> /\ s[1] = "#" THEN Tail(s) ELSE s

\* exactly three or exactly six hex digits, of either case
IsHexString(s) == Len(s) \in {3, 6} /\ \A i \in 1..Len(s) : IsHexDigit(s[i])

\* the machine integer a Python int of small magnitude stands for
ChannelOf(x) == IF x.neg THEN 0 - BToInt(x.mag) ELSE BToInt(x.mag)

Dist(a, b) == IF a < b THEN b - a ELSE a - b

\* C1: for every r, g, b in 0..255, rgb_to_hex(r, g, b) is "#" followed by
\* exactly six lowercase hex digits, and hex_to_rgb of it returns exactly
\* (r, g, b).
HexRoundTripExact ==
    (pc = "unhexed" /\ rgb # <<>>) =>
        /\ Len(hexed) = 7
        /\ hexed[1] = "#"
        /\ \A i \in 2..7 : IsLowerHex(hexed[i])
        /\ unhexed = Return(rgb)

\* C1: a triple that has been taken to hex and back
HexRoundTripDone ==
    /\ pc = "unhexed"
    /\ rgb = <<255, 87, 51>>
    /\ hexed = <<"#", "f", "f", "5", "7", "3", "3">>
    /\ unhexed = Return(<<255, 87, 51>>)

\* C2: hex_to_rgb fails on every string that, after one leading "#" is
\* stripped, is not exactly 3 or exactly 6 hex digits; it never returns an
\* RGB triple for such a string.
MalformedHexFails ==
    (pc = "unhexed" /\ rgb = <<>> /\ ~IsHexString(StripOneHash(hexed))) => Raised(unhexed)

\* C10: for every r, g, b in 0..255, rgb_to_hsl(r, g, b) is (h, s, l) with
\* 0 <= h <= 359 (the hue is truncated, never 360), 0 <= s <= 100 and
\* 0 <= l <= 100.
HslInRange ==
    pc \in {"hsl", "back"} =>
        /\ hsl[1] \in 0..359
        /\ hsl[2] \in 0..100
        /\ hsl[3] \in 0..100

\* C10: a hue just below 360 degrees (359.76...), truncated to 359
HslHueTruncated ==
    /\ pc = "hsl"
    /\ rgb = <<255, 0, 1>>
    /\ hsl = <<359, 100, 50>>

\* C6 as stated: for every r, g, b in 0..255, hsl_to_rgb_tuple(rgb_to_hsl(r, g, b))
\* differs from (r, g, b) by at most 2 in each channel.
RoundTripWithin2 ==
    pc = "back" =>
        /\ ~Raised(back)
        /\ \A i \in 1..3 : Dist(ChannelOf(back.val[i]), rgb[i]) <= 2

\* C6 amended: for every r, g, b in 0..255, hsl_to_rgb_tuple(rgb_to_hsl(r, g, b))
\* differs from (r, g, b) by at most 10 in each channel.
RoundTripWithin10 ==
    pc = "back" =>
        /\ ~Raised(back)
        /\ \A i \in 1..3 : Dist(ChannelOf(back.val[i]), rgb[i]) <= 10

\* C6: a triple whose blue channel comes back 10 lower
RoundTripOffBy10 ==
    /\ pc = "back"
    /\ rgb = <<5, 244, 240>>
    /\ hsl = <<178, 95, 48>>
    /\ back = Return(<<PyInt(6), PyInt(238), PyInt(230)>>)

(***************************************************************************)
(* Properties of parse_color, generate_color_results and main, checked     *)
(* under Spec.                                                             *)
(***************************************************************************)
\* the longest tail split off a query
MaxTail == 2

\* the text an entry shows: its title after the preview and the two spaces
RenderedText(e) == SubSeq(e.title, Len(S_preview) + 3, Len(e.title))

\* the run has a result of parse_color that is a colour
Recognized == pc \in {"parsed", "done"} /\ parsed # None

\* the three channels of the result of parse_color
Channels == <<ChannelOf(parsed[2]), ChannelOf(parsed[3]), ChannelOf(parsed[4])>>

\* the pattern of parse_color that recognizes q, "none" if none does
Via(q) ==
    With(Lower(Strip(q)), LAMBDA s :
        IF MatchHex(s) # NoMatch THEN "hex"
        ELSE IF MatchRgb(s) # NoMatch THEN "rgb()"
        ELSE IF MatchComma(s) # NoMatch THEN "bare"
        ELSE IF MatchHsl(s) # NoMatch THEN "hsl()"
        ELSE "none")

\* C3: whatever triple parse_color hands to generate_color_results (such as
\* (999, 0, 0), or the out-of-range values of the hsl path), the hex value
\* shown is "#" plus exactly six hex digits, the rgb(...) text shown has all
\* three channels in 0..255, and no error occurs.
ClampedOutput ==
    (pc = "done" /\ parsed # None) =>
        /\ error = ""
        /\ Len(RenderedText(output[1])) = 7
        /\ RenderedText(output[1])[1] = "#"
        /\ \A i \in 2..7 : IsHexDigit(RenderedText(output[1])[i])
        /\ With(MatchRgb(RenderedText(output[2])), LAMBDA m :
               /\ m # NoMatch
               /\ \A i \in 1..3 : BCmp(IntOfDigits(m[i]), <<255>>) <= 0)

\* C3: an out-of-range channel, clamped in what is shown
ClampedOutputOf999 ==
    /\ pc = "done"
    /\ parsed = <<"rgb", PyInt(999), PyInt(0), PyInt(0)>>
    /\ RenderedText(output[1]) = <<"#", "F", "F", "0", "0", "0", "0">>
    /\ RenderedText(output[2]) = <<"r", "g", "b", "(", "2", "5", "5", ",", " ", "0", ",", " ", "0", ")">>

\* C4: for every valid hex string h (exactly 3 or 6 hex digits of either
\* case, with or without one leading "#"), parse_color(h) has format "hex"
\* and the RGB triple hex_to_rgb(h) returns; the 3-digit form has each digit
\* doubled (a digit d gives the channel 17 * d).
ValidHexParsed ==
    (pc # "start" /\ IsHexString(StripOneHash(query))) =>
        /\ Recognized
        /\ parsed[1] = "hex"
        /\ hex_to_rgb(query) = Return(Channels)
        /\ Len(StripOneHash(query)) = 3 =>
               \A i \in 1..3 : Channels[i] = 17 * HexVal(StripOneHash(query)[i])

\* C4: a shorthand hex string of mixed case with its "#", parsed
ValidHexShorthandParsed ==
    /\ pc = "parsed"
    /\ query = <<"#", "a", "F", "a">>
    /\ parsed = <<"hex", PyInt(170), PyInt(255), PyInt(170)>>

\* "hsl(9, 100%, 60%)"
HslExample ==
    <<"h", "s", "l", "(", "9", ",", " ", "1", "0", "0", "%", ",", " ", "6", "0", "%", ")">>

\* C5 as stated: parse_color("hsl(9, 100%, 60%)") has format "hsl" and every
\* channel within 1 of (255, 87, 51).
HslExampleWithin1 ==
    (pc # "start" /\ query = HslExample) =>
        /\ Recognized
        /\ parsed[1] = "hsl"
        /\ \A i \in 1..3 : Dist(Channels[i], <<255, 87, 51>>[i]) <= 1

\* C5 amended: parse_color("hsl(9, 100%, 60%)") has format "hsl" and every
\* channel within 6 of (255, 87, 51).
HslExampleWithin6 ==
    (pc # "start" /\ query = HslExample) =>
        /\ Recognized
        /\ parsed[1] = "hsl"
        /\ \A i \in 1..3 : Dist(Channels[i], <<255, 87, 51>>[i]) <= 6

\* C5: what parse_color returns for the example
HslExampleParsed ==
    /\ pc = "parsed"
    /\ query = HslExample
    /\ parsed = <<"hsl", PyInt(255), PyInt(81), PyInt(50)>>

\* C7: parse_color never raises; it returns the unrecognized value exactly
\* when the trimmed, lower-cased input matches none of the four patterns;
\* and what it reports as "hex" is an optional "#" with exactly 3 or 6 hex
\* digits.
ParseNeverRaises ==
    /\ pc # "crashed"
    /\ (pc \in {"parsed", "done"} /\ query # <<>>) =>
           (parsed = None <=> Via(query) = "none")
    /\ (Recognized /\ parsed[1] = "hex") => IsHexString(StripOneHash(Strip(query)))

\* C8: generate_color_results returns exactly 5 entries in the order hex,
\* rgb, hsl, css-variable, framework-hint; the hex entry shows the uppercased
\* hex value ("#FF5733" for (255, 87, 51)), and the css-variable and
\* framework-hint entries embed that same value.
FiveEntriesInOrder ==
    (pc = "done" /\ parsed # None) =>
        /\ Len(output) = 5
        /\ [i \in 1..5 |-> output[i].subtitle]
               = <<S_hex_subtitle, S_rgb_subtitle, S_hsl_subtitle, S_css_subtitle,
                   S_tw_subtitle>>
        /\ With(RenderedText(output[1]), LAMBDA h :
               /\ Len(h) = 7
               /\ h[1] = "#"
               /\ \A i \in 2..7 : h[i] \in Range(UpperHexChars)
               /\ Channels = <<255, 87, 51>> => h = <<"#", "F", "F", "5", "7", "3", "3">>
               /\ SubSeq(RenderedText(output[2]), 1, 4) = <<"r", "g", "b", "(">>
               /\ SubSeq(RenderedText(output[3]), 1, 4) = <<"h", "s", "l", "(">>
               /\ RenderedText(output[4]) = <<"-", "-", "c", "o", "l", "o", "r", ":", " ">> \o h \o <<";">>
               /\ RenderedText(output[5]) = <<"U", "s", "e", " ", "h", "e", "x", " ">> \o h \o <<" ", "i", "n", " ", "T", "a", "i", "l", "w", "i", "n", "d">>)

\* C8: the entries of (255, 87, 51)
FiveEntriesOfExample ==
    /\ pc = "done"
    /\ parsed = <<"rgb", PyInt(255), PyInt(87), PyInt(51)>>
    /\ Len(output) = 5
    /\ RenderedText(output[1]) = <<"#", "F", "F", "5", "7", "3", "3">>
    /\ RenderedText(output[4]) = <<"-", "-", "c", "o", "l", "o", "r", ":", " ", "#", "F", "F", "5", "7", "3", "3", ";">>
    /\ RenderedText(output[5]) = <<"U", "s", "e", " ", "h", "e", "x", " ", "#", "F", "F", "5", "7", "3", "3", " ", "i", "n", " ", "T", "a", "i", "l", "w", "i", "n", "d">>

\* the query is s followed by a tail of k characters, and s alone is
\* recognized through a pattern named in pats
SplitsAfter(k, pats) ==
    /\ k < Len(query)
    /\ Via(SubSeq(query, 1, Len(query) - k)) \in pats
    /\ ~Raised(parse_color(SubSeq(query, 1, Len(query) - k)))

\* parse_color gave the query what it gives the query without its last k characters
SameAsWithout(k) ==
    /\ pc \in {"parsed", "done"}
    /\ parsed = parse_color(SubSeq(query, 1, Len(query) - k)).val

\* C9 as stated: for every s recognized through the functional rgb(...), the
\* bare comma triple or the functional hsl(...) pattern and every tail t,
\* parse_color(s + t) returns the format and the RGB triple of parse_color(s);
\* and a valid hex string followed by any extra character is not recognized
\* as hex.
TailIgnored ==
    pc # "start" =>
        /\ \A k \in 1..MaxTail :
               SplitsAfter(k, {"rgb()", "bare", "hsl()"}) => SameAsWithout(k)
        /\ (query # <<>> /\ IsHexString(StripOneHash(SubSeq(query, 1, Len(query) - 1)))) =>
               ~(Recognized /\ parsed[1] = "hex")

\* C9 amended: for every s recognized through the functional rgb(...) or
\* hsl(...) pattern and every tail t, and for every s recognized through the
\* bare comma triple and every tail t that does not begin with a digit,
\* parse_color(s + t) returns the format and the RGB triple of parse_color(s);
\* and a valid hex string followed by any extra character that is not
\* whitespace is not recognized as hex.
TailIgnoredUnlessDigit ==
    pc # "start" =>
        /\ \A k \in 1..MaxTail :
               \/ SplitsAfter(k, {"rgb()", "hsl()"})
               \/ /\ SplitsAfter(k, {"bare"})
                  /\ ~IsDigit(query[Len(query) - k + 1])
               => SameAsWithout(k)
        /\ (/\ query # <<>>
            /\ IsHexString(StripOneHash(SubSeq(query, 1, Len(query) - 1)))
            /\ ~IsSpace(query[Len(query)])) =>
               ~(Recognized /\ parsed[1] = "hex")

\* C9: a functional rgb(...) with a tail, parsed as without it
TailIgnoredAfterRgb ==
    /\ pc = "parsed"
    /\ query = <<"r", "g", "b", "(", "1", ",", "2", ",", "3", ")", "x">>
    /\ parsed = <<"rgb", PyInt(1), PyInt(2), PyInt(3)>>
    /\ parse_color(<<"r", "g", "b", "(", "1", ",", "2", ",", "3", ")">>) = Return(parsed)

=============================================================================
